---- MODULE Spec2Model ----
(***************************************************************************)
(* Model of the Clang toolchain abstraction (clang.py): the one-time       *)
(* construction of the toolchain state (initialize, parse_prefs,           *)
(* build_toolchain), the flag composers (make_*flags), the variable        *)
(* binders (cc_variables, ar_variables, link_variables) and the builders   *)
(* that hand one build edge to the build-graph writer.                     *)
(*                                                                         *)
(* A Python string is a sequence of pieces, each piece an atom (a TLA+     *)
(* string); '+' on strings is \o.  A path separator is always a piece of   *)
(* its own, so that endswith('/') reads the last piece.  A Python list of  *)
(* strings is a sequence of such sequences.                                *)
(***************************************************************************)
EXTENDS Integers, Sequences, FiniteSets, TLC

VARIABLES
    target,      \* self.target: "generic", "windows" or "android"
    ossep,       \* os.sep of the generating host
    hostarchname,\* self.android.hostarchname
    prefs,       \* the preferences mapping handed to parse_prefs
    args,        \* the arguments of initialize()
    pc,          \* "constructed" before initialize(), "ready" after
    self,        \* the fields of the ClangToolchain object
    writer       \* the last call received by the build-graph writer

vars == <<target, ossep, hostarchname, prefs, args, pc, self, writer>>

\* The longest toolchain prefix (in pieces) a preference supplies.
MaxLen == 3

----------------------------------------------------------------------------
(* Strings *)

S(x) == <<x>>

endswith(s, c) == Len(s) > 0 /\ s[Len(s)] = c

\* The separators os.path recognises: posixpath '/', ntpath '\\' and '/'.
Seps(sep) == IF sep = "\\" THEN {"\\", "/"} ELSE {"/"}

\* os.path.join(a, *p), folded left to right over parts.
RECURSIVE os_path_join_from(_, _, _, _)
os_path_join_from(path, parts, i, sep) ==
    IF i > Len(parts) THEN path
    ELSE LET b == parts[i]
             next == IF Len(b) > 0 /\ b[1] \in Seps(sep) THEN b
                     ELSE IF Len(path) = 0 \/ path[Len(path)] \in Seps(sep)
                          THEN path \o b
                          ELSE path \o S(sep) \o b
         IN os_path_join_from(next, parts, i + 1, sep)

os_path_join(parts, sep) == os_path_join_from(parts[1], parts, 2, sep)

\* str.upper() on the project names the model draws.
upper(project) ==
    CASE project = "foo" -> "FOO"
      [] project = "Bar" -> "BAR"
      [] OTHER -> project

----------------------------------------------------------------------------
(* Collaborators outside clang.py, seen only through their results *)

\* Toolchain.path_escape: quotes a path for the build file.
path_escape(path) == S("esc:") \o path

\* Toolchain.rmcmd: the host's delete command for a file.
rmcmd(file) == S("rm -f ") \o file

\* Android.make_gcc_toolchain_path / make_sysroot_path / make_gcc_bin_path:
\* a path under the NDK chosen by the architecture.
make_gcc_toolchain_path(arch) == <<"$ndk", ossep, "toolchains", ossep, "gcc:", arch, ossep>>

make_sysroot_path(arch) == <<"$ndk", ossep, "platforms", ossep, "sysroot:", arch>>

make_gcc_bin_path(arch) == <<"$ndk", ossep, "toolchains", ossep, "gcc:", arch, ossep, "bin", ossep>>

is_windows == target = "windows"

is_android == target = "android"

----------------------------------------------------------------------------
(* Flag composers *)

make_includepaths(includepaths) ==
    IF ~includepaths.none
    THEN [i \in DOMAIN includepaths.list |->
              S("-I") \o path_escape(includepaths.list[i])]
    ELSE <<>>

make_libpaths(libpaths) ==
    IF ~libpaths.none
    THEN IF is_windows
         THEN [i \in DOMAIN libpaths.list |->
                   S("-Xlinker /LIBPATH:") \o path_escape(libpaths.list[i])]
         ELSE [i \in DOMAIN libpaths.list |->
                   S("-L") \o path_escape(libpaths.list[i])]
    ELSE <<>>

\* make_targetarchflags with the GCC toolchain pair emitted before the
\* triple and the tuning flags.
make_targetarchflags_toolchain_first(arch, targettype) ==
    IF is_android
    THEN <<S("-gcc-toolchain"), make_gcc_toolchain_path(arch)>>
         \o (CASE arch = "x86" ->
                 <<S("-target"), S("i686-none-linux-android"),
                   S("-march=i686"), S("-mtune=intel"), S("-mssse3"),
                   S("-mfpmath=sse"), S("-m32")>>
            [] arch = "x86-64" ->
                 <<S("-target"), S("x86_64-none-linux-android"),
                   S("-march=x86-64"), S("-msse4.2"), S("-mpopcnt"),
                   S("-m64"), S("-mtune=intel")>>
            [] arch = "arm6" ->
                 <<S("-target"), S("armv5te-none-linux-androideabi"),
                   S("-march=armv5te"), S("-mtune=xscale"),
                   S("-msoft-float"), S("-marm")>>
            [] arch = "arm7" ->
                 <<S("-target"), S("armv7-none-linux-androideabi"),
                   S("-march=armv7-a"), S("-mhard-float"),
                   S("-mfpu=vfpv3-d16"), S("-mfpu=neon"),
                   S("-D_NDK_MATH_NO_SOFTFP=1"), S("-marm")>>
            [] arch = "arm64" ->
                 <<S("-target"), S("aarch64-none-linux-android")>>
            [] arch = "mips" ->
                 <<S("-target"), S("mipsel-none-linux-android")>>
            [] arch = "mips64" ->
                 <<S("-target"), S("mips64el-none-linux-android")>>
            [] OTHER -> <<>>)
    ELSE <<>>

make_targetarchflags(arch, targettype) ==
    IF is_android
    THEN (CASE arch = "x86" ->
                 <<S("-target"), S("i686-none-linux-android"),
                   S("-march=i686"), S("-mtune=intel"), S("-mssse3"),
                   S("-mfpmath=sse"), S("-m32")>>
            [] arch = "x86-64" ->
                 <<S("-target"), S("x86_64-none-linux-android"),
                   S("-march=x86-64"), S("-msse4.2"), S("-mpopcnt"),
                   S("-m64"), S("-mtune=intel")>>
            [] arch = "arm6" ->
                 <<S("-target"), S("armv5te-none-linux-androideabi"),
                   S("-march=armv5te"), S("-mtune=xscale"),
                   S("-msoft-float"), S("-marm")>>
            [] arch = "arm7" ->
                 <<S("-target"), S("armv7-none-linux-androideabi"),
                   S("-march=armv7-a"), S("-mhard-float"),
                   S("-mfpu=vfpv3-d16"), S("-mfpu=neon"),
                   S("-D_NDK_MATH_NO_SOFTFP=1"), S("-marm")>>
            [] arch = "arm64" ->
                 <<S("-target"), S("aarch64-none-linux-android")>>
            [] arch = "mips" ->
                 <<S("-target"), S("mipsel-none-linux-android")>>
            [] arch = "mips64" ->
                 <<S("-target"), S("mips64el-none-linux-android")>>
            [] OTHER -> <<>>)
         \o <<S("-gcc-toolchain"), make_gcc_toolchain_path(arch)>>
    ELSE <<>>

\* make_carchflags with the define given to every shared-library target
\* type, the multi variant included.
make_carchflags_multi(arch, targettype) ==
    (IF targettype \in {"sharedlib", "multisharedlib"}
     THEN <<S("-DBUILD_DYNAMIC_LINK=1")>> ELSE <<>>)
    \o (IF is_android THEN make_targetarchflags(arch, targettype) ELSE <<>>)

make_carchflags(arch, targettype) ==
    (IF targettype = "sharedlib" THEN <<S("-DBUILD_DYNAMIC_LINK=1")>> ELSE <<>>)
    \o (IF is_android THEN make_targetarchflags(arch, targettype) ELSE <<>>)

\* make_cconfigflags with the profile branch copied from release, define
\* included.
make_cconfigflags_copied(config, targettype) ==
    CASE config = "debug" ->
           <<S("-DBUILD_DEBUG=1"), S("-g")>>
      [] config = "release" ->
           <<S("-DBUILD_RELEASE=1"), S("-O3"), S("-g"), S("-funroll-loops")>>
      [] config = "profile" ->
           <<S("-DBUILD_RELEASE=1"), S("-O3"), S("-g"), S("-funroll-loops")>>
      [] config = "deploy" ->
           <<S("-DBUILD_DEPLOY=1"), S("-O3"), S("-g"), S("-funroll-loops")>>
      [] OTHER -> <<>>

make_cconfigflags(config, targettype) ==
    CASE config = "debug" ->
           <<S("-DBUILD_DEBUG=1"), S("-g")>>
      [] config = "release" ->
           <<S("-DBUILD_RELEASE=1"), S("-O3"), S("-g"), S("-funroll-loops")>>
      [] config = "profile" ->
           <<S("-DBUILD_PROFILE=1"), S("-O3"), S("-g"), S("-funroll-loops")>>
      [] config = "deploy" ->
           <<S("-DBUILD_DEPLOY=1"), S("-O3"), S("-g"), S("-funroll-loops")>>
      [] OTHER -> <<>>

make_ararchflags(arch, targettype) == <<>>

make_arconfigflags(config, targettype) == <<>>

\* make_linkarchflags with the arm7 test widened to every 32-bit ARM.
make_linkarchflags_any_arm(arch, targettype) ==
    IF is_android
    THEN make_targetarchflags(arch, targettype)
         \o (IF arch \in {"arm6", "arm7"}
             THEN <<S("-Wl,--no-warn-mismatch"), S("-Wl,--fix-cortex-a8")>>
             ELSE <<>>)
    ELSE <<>>

make_linkarchflags(arch, targettype) ==
    IF is_android
    THEN make_targetarchflags(arch, targettype)
         \o (IF arch = "arm7"
             THEN <<S("-Wl,--no-warn-mismatch"), S("-Wl,--fix-cortex-a8")>>
             ELSE <<>>)
    ELSE <<>>

\* make_linkconfigflags without the Windows test.
make_linkconfigflags_any_platform(config, targettype) ==
    CASE targettype = "sharedlib" -> <<S("-Xlinker"), S("/DLL")>>
      [] targettype = "bin" -> <<S("-Xlinker"), S("/SUBSYSTEM:CONSOLE")>>
      [] OTHER -> <<>>

make_linkconfigflags(config, targettype) ==
    IF is_windows
    THEN (CASE targettype = "sharedlib" -> <<S("-Xlinker"), S("/DLL")>>
            [] targettype = "bin" -> <<S("-Xlinker"), S("/SUBSYSTEM:CONSOLE")>>
            [] OTHER -> <<>>)
    ELSE <<>>

make_linkarchlibs(arch, targettype) ==
    IF is_android
    THEN (IF arch = "arm7" THEN <<S("m_hard")>> ELSE <<S("m")>>)
         \o <<S("gcc"), S("android")>>
    ELSE <<>>

make_libs(libs) ==
    IF ~libs.none
    THEN [i \in DOMAIN libs.list |-> S("-l") \o libs.list[i]]
    ELSE <<>>

\* A Python list value, and None where a list is expected.
List(xs) == [none |-> FALSE, list |-> xs]

None == [none |-> TRUE, list |-> <<>>]

make_configlibpaths(config, arch) ==
    make_libpaths(List(<<self.libpath,
                         os_path_join(<<self.libpath, S(config)>>, ossep),
                         os_path_join(<<self.libpath, S(config), S(arch)>>, ossep)>>))

----------------------------------------------------------------------------
(* Variable binders: the overrides attached to one build edge.  An entry  *)
(* is (name, value); islist tells a flag list from a scalar string.       *)

Entry(name, value) == [name |-> name, islist |-> TRUE, value |-> value]

Scalar(name, value) == [name |-> name, islist |-> FALSE, value |-> value]

\* cc_variables binding carchflags without the emptiness test.
cc_variables_unchecked(config, arch, targettype, variables) ==
    LET moreincludepaths == make_includepaths(variables["includepaths"])
        carchflags == make_carchflags(arch, targettype)
        cconfigflags == make_cconfigflags(config, targettype)
    IN (IF "includepaths" \in DOMAIN variables /\ moreincludepaths # <<>>
        THEN <<Entry("moreincludepaths", moreincludepaths)>> ELSE <<>>)
       \o <<Entry("carchflags", carchflags)>>
       \o (IF cconfigflags # <<>> THEN <<Entry("cconfigflags", cconfigflags)>> ELSE <<>>)
       \o (IF is_android THEN <<Scalar("sysroot", make_sysroot_path(arch))>> ELSE <<>>)

cc_variables(config, arch, targettype, variables) ==
    LET moreincludepaths == make_includepaths(variables["includepaths"])
        carchflags == make_carchflags(arch, targettype)
        cconfigflags == make_cconfigflags(config, targettype)
    IN (IF "includepaths" \in DOMAIN variables /\ moreincludepaths # <<>>
        THEN <<Entry("moreincludepaths", moreincludepaths)>> ELSE <<>>)
       \o (IF carchflags # <<>> THEN <<Entry("carchflags", carchflags)>> ELSE <<>>)
       \o (IF cconfigflags # <<>> THEN <<Entry("cconfigflags", cconfigflags)>> ELSE <<>>)
       \o (IF is_android THEN <<Scalar("sysroot", make_sysroot_path(arch))>> ELSE <<>>)

ar_variables(config, arch, targettype, variables) ==
    LET ararchflags == make_ararchflags(arch, targettype)
        arconfigflags == make_arconfigflags(config, targettype)
    IN (IF ararchflags # <<>> THEN <<Entry("ararchflags", ararchflags)>> ELSE <<>>)
       \o (IF arconfigflags # <<>> THEN <<Entry("arconfigflags", arconfigflags)>> ELSE <<>>)
       \o (IF is_android THEN <<Scalar("toolchain", make_gcc_bin_path(arch))>> ELSE <<>>)

link_variables(config, arch, targettype, variables) ==
    LET linkarchflags == make_linkarchflags(arch, targettype)
        linkconfigflags == make_linkconfigflags(config, targettype)
        libvar == make_libs(variables["libs"])
        archlibs == make_linkarchlibs(arch, targettype)
    IN (IF linkarchflags # <<>> THEN <<Entry("linkarchflags", linkarchflags)>> ELSE <<>>)
       \o (IF linkconfigflags # <<>> THEN <<Entry("linkconfigflags", linkconfigflags)>> ELSE <<>>)
       \o (IF "libs" \in DOMAIN variables /\ libvar # <<>>
           THEN <<Entry("libs", libvar)>> ELSE <<>>)
       \o <<Entry("configlibpaths", make_configlibpaths(config, arch))>>
       \o (IF is_android THEN <<Scalar("sysroot", make_sysroot_path(arch))>> ELSE <<>>)
       \o (IF archlibs # <<>> THEN <<Entry("archlibs", make_libs(List(archlibs)))>> ELSE <<>>)

----------------------------------------------------------------------------
(* Construction *)

NoBuilders == [k \in {} |-> ""]

\* The object before initialize(): no toolchain field is set yet.
Constructed ==
    [toolchain |-> <<>>, includepaths |-> List(<<>>), libpaths |-> List(<<>>),
     ccompiler |-> <<>>, archiver |-> <<>>, linker |-> <<>>,
     cccmd |-> <<>>, ccdeps |-> <<>>, ccdepfile |-> <<>>, arcmd |-> <<>>,
     linkcmd |-> <<>>, cflags |-> <<>>, mflags |-> <<>>, arflags |-> <<>>,
     linkflags |-> <<>>, oslibs |-> <<>>, objext |-> <<>>, libpath |-> <<>>,
     builders |-> NoBuilders]

\* initialize(), lines 12-61, up to but not including the preferences.
defaults(a) ==
    [toolchain |-> <<>>,
     includepaths |-> a.includepaths,
     libpaths |-> a.libpaths,
     ccompiler |-> S("clang"),
     archiver |-> S("llvm-ar"),
     linker |-> S("clang"),
     cccmd |-> S("$toolchain$cc -MMD -MT $out -MF $out.d -I. $includepaths $moreincludepaths $cflags $carchflags $cconfigflags -c $in -o $out"),
     ccdeps |-> S("gcc"),
     ccdepfile |-> S("$out.d"),
     arcmd |-> rmcmd(S("$out")) \o S(" && $toolchain$ar crsD $ararchflags $arflags $out $in"),
     linkcmd |-> S("$toolchain$cc $libpaths $configlibpaths $linkflags $linkarchflags $linkconfigflags -o $out $in $libs $archlibs $oslibs"),
     cflags |-> <<S("-std=c11"), <<"-D", upper(a.project), "_COMPILE=1">>,
                  S("-W"), S("-Werror"), S("-pedantic"), S("-Wall"), S("-Weverything"),
                  S("-Wno-padded"), S("-Wno-documentation-unknown-command"),
                  S("-funit-at-a-time"), S("-fstrict-aliasing"),
                  S("-fno-math-errno"), S("-ffinite-math-only"),
                  S("-funsafe-math-optimizations"),
                  S("-fno-trapping-math"), S("-ffast-math")>>
                \o (IF a.monolithic THEN <<S("-DBUILD_MONOLITHIC=1")>> ELSE <<>>),
     mflags |-> <<>>,
     arflags |-> <<>>,
     linkflags |-> <<>>,
     oslibs |-> <<>>,
     objext |-> S(".o"),
     libpath |-> S("lib"),
     builders |-> [k \in {"c", "lib", "multilib", "sharedlib", "multisharedlib",
                          "bin", "multibin"} |->
                     CASE k = "c" -> "builder_cc"
                       [] k = "lib" -> "builder_lib"
                       [] k = "sharedlib" -> "builder_sharedlib"
                       [] k = "bin" -> "builder_bin"
                       [] OTHER -> "builder_multicopy"]]

\* parse_prefs looking for 'toolchain' at the top level of the preferences
\* instead of under 'clang'.
parse_prefs_top_level(s, p) ==
    IF "clang" \in DOMAIN p /\ "toolchain" \in DOMAIN p
    THEN [s EXCEPT !.toolchain = p["toolchain"]]
    ELSE s

parse_prefs(s, p) ==
    IF "clang" \in DOMAIN p /\ "toolchain" \in DOMAIN p["clang"]
    THEN [s EXCEPT !.toolchain = p["clang"]["toolchain"]]
    ELSE s

\* Toolchain.read_build_prefs: hands the loaded preferences to parse_prefs.
read_build_prefs(s, p) == parse_prefs(s, p)

build_windows_toolchain(s) ==
    [s EXCEPT !.cflags = @ \o <<S("-U__STRICT_ANSI__"), S("-Wno-reserved-id-macro")>>,
              !.oslibs = <<S("kernel32"), S("user32"), S("shell32"), S("advapi32")>>]

build_android_toolchain(s) ==
    [s EXCEPT !.archiver = S("ar"),
              !.cccmd = @ \o S(" --sysroot=$sysroot"),
              !.linkcmd = @ \o S(" -shared -Wl,-soname,$liblinkname --sysroot=$sysroot"),
              !.cflags = @ \o <<S("-fpic"), S("-ffunction-sections"), S("-funwind-tables"),
                                S("-fstack-protector"), S("-fomit-frame-pointer"),
                                S("-no-canonical-prefixes"), S("-Wa,--noexecstack")>>,
              !.linkflags = @ \o <<S("-no-canonical-prefixes"), S("-Wl,--no-undefined"),
                                   S("-Wl,-z,noexecstack"), S("-Wl,-z,relro"),
                                   S("-Wl,-z,now")>>,
              !.includepaths = List(@.list \o
                  <<os_path_join(<<S("$ndk"), S("sources"), S("android"), S("native_app_glue")>>, ossep),
                    os_path_join(<<S("$ndk"), S("sources"), S("android"), S("cpufeatures")>>, ossep)>>),
              !.oslibs = @ \o <<S("log")>>,
              !.toolchain = os_path_join(<<S("$ndk"), S("toolchains"), S("llvm"), S("prebuilt"),
                                           S(hostarchname), S("bin"), <<>>>>, ossep)]

\* The normalization testing for '/' only.
normalize_slash_only(tc) ==
    IF tc # <<>> /\ ~endswith(tc, "/")
    THEN tc \o S(ossep)
    ELSE tc

\* The last statement of build_toolchain: the trailing separator.
normalize(tc) ==
    IF tc # <<>> /\ ~endswith(tc, "/") /\ ~endswith(tc, "\\")
    THEN tc \o S(ossep)
    ELSE tc

build_toolchain(s) ==
    LET t == IF is_windows THEN build_windows_toolchain(s)
             ELSE IF is_android THEN build_android_toolchain(s)
             ELSE s
    IN [t EXCEPT !.toolchain = normalize(@)]

initialize_state(a, p) == build_toolchain(read_build_prefs(defaults(a), p))

----------------------------------------------------------------------------
(* The inputs the model draws *)

Platforms == {"generic", "windows", "android"}

OsSeps == {"/", "\\"}

Alphabet == {"a", "/", "\\"}

\* Every string of at most n pieces over Alphabet, the empty one included.
RECURSIVE Strings(_)
Strings(n) ==
    IF n = 0 THEN {<<>>}
    ELSE LET shorter == Strings(n - 1)
         IN shorter \cup {s \o S(c) : s \in shorter, c \in Alphabet}

NoKeys == [k \in {} |-> <<>>]

\* No 'clang' key, a 'clang' key without 'toolchain', or a 'toolchain' value.
Prefs ==
    {NoKeys, [clang |-> NoKeys]}
    \cup {[clang |-> [toolchain |-> v]] : v \in Strings(MaxLen)}

RecognizedArchs == {"x86", "x86-64", "arm6", "arm7", "arm64", "mips", "mips64"}

AllArchs == RecognizedArchs \cup {"sparc"}

AllConfigs == {"debug", "release", "profile", "deploy", "coverage"}

AllTargetTypes ==
    {"lib", "sharedlib", "bin", "multilib", "multisharedlib", "multibin", "plugin"}

\* The per-edge variable maps: with or without 'includepaths' and 'libs',
\* with empty lists, non-empty lists and None.
EdgeVariables ==
    {NoKeys,
     [includepaths |-> List(<<>>), libs |-> List(<<>>)],
     [includepaths |-> List(<<S("ext")>>)],
     [libs |-> List(<<S("z"), S("z")>>)],
     [includepaths |-> None, libs |-> None]}

NoCall == [call |-> "none", rule |-> "", variables |-> <<>>]

\* A small build matrix with every preference value.
Init ==
    /\ target \in Platforms
    /\ ossep \in OsSeps
    /\ hostarchname = "linux-x86_64"
    /\ prefs \in Prefs
    /\ args \in [project : {"foo"},
                 includepaths : {List(<<S("inc")>>)},
                 libpaths : {List(<<>>)},
                 monolithic : BOOLEAN,
                 archs : {{"arm7", "sparc"}},
                 configs : {{"release"}},
                 targettypes : {{"sharedlib", "bin"}}]
    /\ pc = "constructed"
    /\ self = Constructed
    /\ writer = NoCall

\* One cell of the full build matrix per behaviour, with two preference values.
InitMatrix ==
    /\ target \in Platforms
    /\ ossep = "/"
    /\ hostarchname = "linux-x86_64"
    /\ prefs \in {NoKeys, [clang |-> [toolchain |-> <<"a">>]]}
    /\ args \in [project : {"Bar"},
                 includepaths : {List(<<>>)},
                 libpaths : {List(<<S("ext"), S("lib")>>)},
                 monolithic : {FALSE},
                 archs : {{arch} : arch \in AllArchs},
                 configs : {{config} : config \in AllConfigs},
                 targettypes : {{targettype} : targettype \in AllTargetTypes}]
    /\ pc = "constructed"
    /\ self = Constructed
    /\ writer = NoCall

----------------------------------------------------------------------------
(* Operations *)

initialize ==
    /\ pc = "constructed"
    /\ self' = initialize_state(args, prefs)
    /\ pc' = "ready"
    /\ UNCHANGED <<target, ossep, hostarchname, prefs, args, writer>>

write_variables ==
    /\ pc = "ready"
    /\ writer' =
         [call |-> "variables", rule |-> "",
          variables |->
            <<Scalar("toolchain", self.toolchain),
              Scalar("cc", self.ccompiler),
              Scalar("ar", self.archiver),
              Scalar("link", self.linker),
              Entry("includepaths", make_includepaths(self.includepaths)),
              Scalar("moreincludepaths", <<>>),
              Entry("cflags", self.cflags),
              Scalar("carchflags", <<>>),
              Scalar("cconfigflags", <<>>),
              Entry("arflags", self.arflags),
              Scalar("ararchflags", <<>>),
              Scalar("arconfigflags", <<>>),
              Entry("linkflags", self.linkflags),
              Scalar("linkarchflags", <<>>),
              Scalar("linkconfigflags", <<>>),
              Scalar("libs", <<>>),
              Entry("libpaths", make_libpaths(self.libpaths)),
              Scalar("configlibpaths", <<>>),
              Scalar("archlibs", <<>>),
              Entry("oslibs", make_libs(List(self.oslibs)))>>]
    /\ UNCHANGED <<target, ossep, hostarchname, prefs, args, pc, self>>

\* A builder that appends the edge's include paths to the object's own list.
after_build_appending(s, config, arch, targettype, variables) ==
    IF "includepaths" \in DOMAIN variables
    THEN [s EXCEPT !.includepaths = List(@.list \o variables["includepaths"].list)]
    ELSE s

\* What a builder leaves of the object: nothing is assigned.
after_build(s, config, arch, targettype, variables) == s

build(rule, bound, config, arch, targettype, variables) ==
    /\ pc = "ready"
    /\ writer' = [call |-> "build", rule |-> rule, variables |-> bound]
    /\ self' = after_build(self, config, arch, targettype, variables)
    /\ UNCHANGED <<target, ossep, hostarchname, prefs, args, pc>>

builder_cc ==
    \E config \in args.configs, arch \in args.archs,
       targettype \in args.targettypes, variables \in EdgeVariables :
        build("cc", cc_variables(config, arch, targettype, variables),
              config, arch, targettype, variables)

builder_lib ==
    \E config \in args.configs, arch \in args.archs,
       targettype \in args.targettypes, variables \in EdgeVariables :
        build("ar", ar_variables(config, arch, targettype, variables),
              config, arch, targettype, variables)

builder_sharedlib ==
    \E config \in args.configs, arch \in args.archs,
       targettype \in args.targettypes, variables \in EdgeVariables :
        build("so", link_variables(config, arch, targettype, variables),
              config, arch, targettype, variables)

builder_bin ==
    \E config \in args.configs, arch \in args.archs,
       targettype \in args.targettypes, variables \in EdgeVariables :
        build("link", link_variables(config, arch, targettype, variables),
              config, arch, targettype, variables)

Next ==
    \/ initialize
    \/ write_variables
    \/ builder_cc
    \/ builder_lib
    \/ builder_sharedlib
    \/ builder_bin

Spec == Init /\ [][Next]_vars

SpecMatrix == InitMatrix /\ [][Next]_vars

----------------------------------------------------------------------------
(* Reading the edge the writer received *)

IsEdge == pc = "ready" /\ writer.call = "build"

IsCompileEdge == IsEdge /\ writer.rule = "cc"

IsLinkEdge == IsEdge /\ writer.rule \in {"so", "link"}

HasEntry(name) ==
    \E i \in DOMAIN writer.variables : writer.variables[i].name = name

\* The flag list bound to name on the edge; the empty list when it is absent.
Binding(name) ==
    IF HasEntry(name)
    THEN writer.variables[CHOOSE i \in DOMAIN writer.variables :
                              writer.variables[i].name = name].value
    ELSE <<>>

Contains(flags, flag) == \E i \in DOMAIN flags : flags[i] = S(flag)

IsSuffix(suffix, flags) ==
    /\ Len(suffix) <= Len(flags)
    /\ SubSeq(flags, Len(flags) - Len(suffix) + 1, Len(flags)) = suffix

IsPrefix(prefix, flags) ==
    /\ Len(prefix) <= Len(flags)
    /\ SubSeq(flags, 1, Len(prefix)) = prefix

----------------------------------------------------------------------------
(* Claims *)

\* C1: no edge built by builder_cc, builder_lib, builder_sharedlib or
\* builder_bin carries an override whose value is an empty flag list, on any
\* platform and for any configuration, architecture, target type and per-edge
\* variable map.
C1_NoEmptyOverride ==
    IsEdge =>
        \A i \in DOMAIN writer.variables :
            writer.variables[i].islist => Len(writer.variables[i].value) > 0

\* A compile edge whose architecture flags composed to nothing: the category
\* is absent from the overrides.
C1_Witness ==
    /\ IsCompileEdge
    /\ \A arch \in args.archs, targettype \in args.targettypes :
           make_carchflags(arch, targettype) = <<>>
    /\ ~HasEntry("carchflags")
    /\ ~HasEntry("moreincludepaths")

Defines == {"-DBUILD_DEBUG=1", "-DBUILD_RELEASE=1", "-DBUILD_PROFILE=1", "-DBUILD_DEPLOY=1"}

DefineOf(config) ==
    CASE config = "debug" -> "-DBUILD_DEBUG=1"
      [] config = "release" -> "-DBUILD_RELEASE=1"
      [] config = "profile" -> "-DBUILD_PROFILE=1"
      [] config = "deploy" -> "-DBUILD_DEPLOY=1"

Optimized == {"release", "profile", "deploy"}

OptimizedOK(config, flags) ==
    config \in Optimized =>
        flags = <<S(DefineOf(config)), S("-O3"), S("-g"), S("-funroll-loops")>>

\* C2 as stated: on a compile edge the configuration flags of 'debug' are
\* exactly a debug define, a no-optimization flag and a symbols flag, and
\* those of release, profile and deploy their define, -O3, -g, -funroll-loops.
C2_Original ==
    IsCompileEdge =>
        \A config \in args.configs :
            /\ config = "debug" =>
                   /\ Len(Binding("cconfigflags")) = 3
                   /\ Contains(Binding("cconfigflags"), "-DBUILD_DEBUG=1")
                   /\ Contains(Binding("cconfigflags"), "-O0")
                   /\ Contains(Binding("cconfigflags"), "-g")
            /\ OptimizedOK(config, Binding("cconfigflags"))

\* C2 amended: for every target type, 'debug' yields exactly the debug define
\* followed by the symbols flag -g, with no optimization flag at all;
\* release, profile and deploy each yield their own define followed by -O3,
\* -g and -funroll-loops; the four defines are pairwise distinct; and the
\* compile edge binds exactly that list.
C2_ConfigFlags ==
    pc = "ready" =>
    /\ \A config \in args.configs, targettype \in AllTargetTypes :
           /\ config = "debug" =>
                  make_cconfigflags(config, targettype) = <<S("-DBUILD_DEBUG=1"), S("-g")>>
           /\ OptimizedOK(config, make_cconfigflags(config, targettype))
    /\ \A c1 \in Optimized \cup {"debug"}, c2 \in Optimized \cup {"debug"} :
           \A targettype \in args.targettypes :
               c1 # c2 =>
                   /\ make_cconfigflags(c1, targettype)[1] # make_cconfigflags(c2, targettype)[1]
                   /\ ~\E i \in DOMAIN make_cconfigflags(c1, targettype) :
                          make_cconfigflags(c1, targettype)[i] = make_cconfigflags(c2, targettype)[1]
    /\ IsCompileEdge =>
           \A config \in args.configs, targettype \in args.targettypes :
               Binding("cconfigflags") = make_cconfigflags(config, targettype)

\* A debug compile edge has been emitted with its two configuration flags.
C2_Witness ==
    /\ IsCompileEdge
    /\ args.configs = {"debug"}
    /\ Binding("cconfigflags") = <<S("-DBUILD_DEBUG=1"), S("-g")>>

\* C3 as stated: for an architecture outside the recognized set, the
\* architecture flags (and so the architecture part of the compile-time and
\* link-time architecture flags) are empty on every platform, Android included.
C3_Original ==
    IsEdge =>
        \A arch \in args.archs \ RecognizedArchs, targettype \in args.targettypes :
            /\ make_targetarchflags(arch, targettype) = <<>>
            /\ make_linkarchflags(arch, targettype) = <<>>
            /\ ~Contains(make_carchflags(arch, targettype), "-gcc-toolchain")

\* C4: the compile-time architecture flags contain -DBUILD_DYNAMIC_LINK=1
\* exactly when the target type is 'sharedlib', on every platform and for
\* every architecture, and so does the carchflags binding of a compile edge.
C4_DynamicLinkDefine ==
    pc = "ready" =>
    \A arch \in args.archs, targettype \in args.targettypes :
        /\ Contains(make_carchflags(arch, targettype), "-DBUILD_DYNAMIC_LINK=1")
               <=> targettype = "sharedlib"
        /\ IsCompileEdge =>
               (Contains(Binding("carchflags"), "-DBUILD_DYNAMIC_LINK=1")
                    <=> targettype = "sharedlib")

\* A shared-library compile edge carrying the define.
C4_Witness ==
    /\ IsCompileEdge
    /\ args.targettypes = {"sharedlib"}
    /\ Contains(Binding("carchflags"), "-DBUILD_DYNAMIC_LINK=1")

LinkFixups == <<S("-Wl,--no-warn-mismatch"), S("-Wl,--fix-cortex-a8")>>

\* C5: on Android the link-time architecture flags contain
\* -Wl,--no-warn-mismatch and -Wl,--fix-cortex-a8 exactly when the
\* architecture is arm7, for every target type, and there they follow the
\* flags shared with the compile-time derivation; elsewhere they never appear.
C5_LinkFixups ==
    pc = "ready" =>
    \A arch \in args.archs, targettype \in args.targettypes :
        LET flags == make_linkarchflags(arch, targettype)
            shared == make_targetarchflags(arch, targettype)
        IN /\ target = "android" =>
                  /\ Contains(flags, "-Wl,--no-warn-mismatch") <=> arch = "arm7"
                  /\ Contains(flags, "-Wl,--fix-cortex-a8") <=> arch = "arm7"
                  /\ IsPrefix(shared, flags)
                  /\ arch = "arm7" =>
                         /\ IsSuffix(LinkFixups, flags)
                         /\ Len(flags) = Len(shared) + 2
           /\ target # "android" =>
                  /\ ~Contains(flags, "-Wl,--no-warn-mismatch")
                  /\ ~Contains(flags, "-Wl,--fix-cortex-a8")
           /\ IsLinkEdge => Binding("linkarchflags") = flags

\* An Android arm7 link edge whose linkarchflags end with the two flags.
C5_Witness ==
    /\ IsLinkEdge
    /\ target = "android"
    /\ args.archs = {"arm7"}
    /\ IsSuffix(LinkFixups, Binding("linkarchflags"))

\* C6: on Windows the link-time configuration flags of a shared-library link
\* include /DLL and those of an executable link include /SUBSYSTEM:CONSOLE,
\* for every configuration; on every other platform make_linkconfigflags is
\* empty and a link edge carries no linkconfigflags override.
C6_LinkConfigFlags ==
    pc = "ready" =>
    \A config \in args.configs, targettype \in args.targettypes :
        LET flags == make_linkconfigflags(config, targettype)
        IN /\ (target = "windows" /\ targettype = "sharedlib") => Contains(flags, "/DLL")
           /\ (target = "windows" /\ targettype = "bin") => Contains(flags, "/SUBSYSTEM:CONSOLE")
           /\ target # "windows" => flags = <<>>
           /\ IsLinkEdge =>
                  /\ Binding("linkconfigflags") = flags
                  /\ target # "windows" => ~HasEntry("linkconfigflags")

\* A Windows shared-library link edge carrying the DLL flag.
C6_Witness ==
    /\ IsLinkEdge
    /\ target = "windows"
    /\ args.targettypes = {"sharedlib"}
    /\ Contains(Binding("linkconfigflags"), "/DLL")

Arm7Flags ==
    <<S("-target"), S("armv7-none-linux-androideabi"), S("-march=armv7-a"),
      S("-mhard-float"), S("-mfpu=vfpv3-d16"), S("-mfpu=neon"),
      S("-D_NDK_MATH_NO_SOFTFP=1"), S("-marm"), S("-gcc-toolchain"),
      make_gcc_toolchain_path("arm7")>>

\* C7: on Android the architecture flags of arm7 are exactly -target,
\* armv7-none-linux-androideabi, -march=armv7-a, -mhard-float,
\* -mfpu=vfpv3-d16, -mfpu=neon, -D_NDK_MATH_NO_SOFTFP=1, -marm,
\* -gcc-toolchain and the GCC toolchain path of arm7, in that order, and a
\* compile edge binds them to carchflags in that order, after the
\* dynamic-link define when there is one.
C7_Arm7Sequence ==
    (pc = "ready" /\ target = "android" /\ "arm7" \in args.archs) =>
        \A targettype \in args.targettypes :
            /\ make_targetarchflags("arm7", targettype) = Arm7Flags
            /\ IsCompileEdge =>
                   /\ IsSuffix(Arm7Flags, Binding("carchflags"))
                   /\ Len(Binding("carchflags")) =
                          Len(Arm7Flags) + (IF targettype = "sharedlib" THEN 1 ELSE 0)

\* An Android arm7 compile edge whose carchflags are the ten flags.
C7_Witness ==
    /\ IsCompileEdge
    /\ target = "android"
    /\ args.archs = {"arm7"}
    /\ Binding("carchflags") = Arm7Flags

\* C8: once initialize() has returned, no builder call changes any field of
\* the toolchain object, whatever the configuration, architecture, target
\* type and per-edge variable map of the edge.
C8_StateFrozen == [][pc = "ready" => self' = self]_vars

\* A compile edge with extra include paths has been emitted and the object
\* is still what initialize() left.
C8_Witness ==
    /\ IsCompileEdge
    /\ HasEntry("moreincludepaths")
    /\ self = initialize_state(args, prefs)

PathSeps == {"/", "\\"}

\* How many path separators end the string.
RECURSIVE TrailingSeps(_)
TrailingSeps(s) ==
    IF Len(s) > 0 /\ s[Len(s)] \in PathSeps
    THEN 1 + TrailingSeps(SubSeq(s, 1, Len(s) - 1))
    ELSE 0

HasPrefToolchain == "clang" \in DOMAIN prefs /\ "toolchain" \in DOMAIN prefs["clang"]

\* The 'toolchain' value of the 'clang' preferences, '' when there is none.
PrefToolchain == IF HasPrefToolchain THEN prefs["clang"]["toolchain"] ELSE <<>>

Max(a, b) == IF a >= b THEN a ELSE b

\* C9 as stated: after build_toolchain() the toolchain prefix is empty or
\* ends with exactly one path separator, whatever the preference supplied.
C9_Original ==
    pc = "ready" => (self.toolchain = <<>> \/ TrailingSeps(self.toolchain) = 1)

\* C9 amended: after build_toolchain() the toolchain prefix is empty or ends
\* with at least one path separator.  One separator is appended only when the
\* prefix ends with none, and trailing separators already there are kept, so
\* the prefix ends with exactly one separator unless the preference value
\* itself ended with several.  On Android the prefix is the NDK-derived path,
\* resolved before the normalization, and ends with exactly one separator.
C9_TrailingSeparator ==
    pc = "ready" =>
        /\ self.toolchain = <<>> \/ TrailingSeps(self.toolchain) >= 1
        /\ target = "android" => TrailingSeps(self.toolchain) = 1
        /\ target # "android" =>
               /\ self.toolchain = <<>> <=> PrefToolchain = <<>>
               /\ PrefToolchain # <<>> =>
                      TrailingSeps(self.toolchain) = Max(1, TrailingSeps(PrefToolchain))

\* A preference value without a trailing separator has received one.
C9_Witness ==
    /\ pc = "ready"
    /\ target = "generic"
    /\ PrefToolchain = <<"a">>
    /\ self.toolchain = <<"a", ossep>>

WithSep(v) == IF TrailingSeps(v) = 0 THEN v \o S(ossep) ELSE v

WrittenToolchain == writer.variables[1].value

IsVariables ==
    /\ pc = "ready"
    /\ writer.call = "variables"
    /\ writer.variables[1].name = "toolchain"

\* C10 as stated: a non-empty 'toolchain' preference is the prefix that
\* write_variables writes (with a separator added when missing) on every
\* target platform, Android included.
C10_Original ==
    (IsVariables /\ PrefToolchain # <<>>) => WrittenToolchain = WithSep(PrefToolchain)

\* C10 amended: a non-empty 'toolchain' preference is the prefix that
\* write_variables writes (with a separator added when missing) on every
\* target platform except Android; on Android build_android_toolchain
\* replaces it and the prefix written is the NDK path ending in bin and a
\* separator, whatever the preference.
C10_PrefOverride ==
    IsVariables =>
        /\ (target # "android" /\ PrefToolchain # <<>>) =>
               WrittenToolchain = WithSep(PrefToolchain)
        /\ target = "android" =>
               /\ IsPrefix(<<"$ndk", ossep, "toolchains">>, WrittenToolchain)
               /\ IsSuffix(<<"bin", ossep>>, WrittenToolchain)

\* The preference value has been written on a non-Android platform.
C10_Witness ==
    /\ IsVariables
    /\ target = "windows"
    /\ PrefToolchain = <<"a">>
    /\ WrittenToolchain = <<"a", ossep>>

====
